---------------------------- MODULE Spec2Model ----------------------------
(***************************************************************************)
(* A model of fdroidserver/import.py: the repository page scraper          *)
(* (getrepofrompage), the URL classifier (get_app_from_url), the build     *)
(* tree scanner (get_all_gradle_and_manifests), the Gradle subproject      *)
(* resolver (get_gradle_subdir) and the import run that chains them        *)
(* (main).                                                                 *)
(*                                                                         *)
(* Python strings are sequences of one-character strings, so that prefix,  *)
(* suffix, search and slicing are computed on characters as the code       *)
(* computes them.                                                          *)
(***************************************************************************)
EXTENDS Integers, Sequences, FiniteSets, TLC

VARIABLES
    pc,        \* position of the operation under study
    url,       \* the URL given to get_app_from_url / getrepofrompage
    code,      \* HTTP status of the fetched page (req.getcode())
    page,      \* decoded body of the fetched page
    repoinfo,  \* what getrepofrompage returned
    app,       \* what get_app_from_url returned, or the exception it raised
    tree,      \* the files of the checked-out source tree
    paths,     \* what get_all_gradle_and_manifests returned
    subdir,    \* what get_gradle_subdir returned
    env,       \* command line and working directory of an import run
    package,   \* package id parse_androidmanifests found
    stages,    \* the stages of the import run executed so far, in order
    vcs,       \* the calls of the VCS client made so far
    written,   \* the metadata records written so far
    error      \* the exception that ended the import run, or "none"

classifyVars == <<url, code, page, repoinfo, app>>

treeVars == <<tree, paths, subdir>>

runVars == <<env, package, stages, vcs, written, error>>

vars == <<pc, classifyVars, treeVars, runVars>>

---------------------------------------------------------------------------
(* Bounds of the model.                                                    *)

\* longest free part of an input URL, in characters
MaxBody == 2
\* most page fragments concatenated into one fetched page
MaxSegs == 2
\* most files in a tree given to the scanner
MaxFiles == 3
\* most files in a Gradle project given to the resolver
MaxGradleFiles == 4

---------------------------------------------------------------------------
(* Python string operations.                                               *)

EMPTY == <<>>

Min(S) == CHOOSE x \in S : \A y \in S : x <= y

Max(S) == CHOOSE x \in S : \A y \in S : x >= y

\* s.startswith(p)
StartsWith(s, p) == Len(p) <= Len(s) /\ SubSeq(s, 1, Len(p)) = p

\* s.endswith(p)
EndsWith(s, p) == Len(p) <= Len(s) /\ SubSeq(s, Len(s) - Len(p) + 1, Len(s)) = p

\* s[n:]
DropFirst(s, n) == IF n >= Len(s) THEN EMPTY ELSE SubSeq(s, n + 1, Len(s))

\* s[:n], n >= 0
TakeFirst(s, n) == IF n >= Len(s) THEN s ELSE SubSeq(s, 1, n)

\* s[:-n]
DropLast(s, n) == IF n >= Len(s) THEN EMPTY ELSE SubSeq(s, 1, Len(s) - n)

\* s.find(sub): the 0-based index of the first occurrence, or -1
Find(s, sub) ==
    LET at == {i \in 0..(Len(s) - Len(sub)) : SubSeq(s, i + 1, i + Len(sub)) = sub}
    IN  IF at = {} THEN -1 ELSE Min(at)

\* c in s
Contains(s, c) == \E i \in 1..Len(s) : s[i] = c

\* s.split(sep)[0], sep one character
SplitFirst(s, sep) ==
    LET i == Find(s, <<sep>>) IN IF i = -1 THEN s ELSE TakeFirst(s, i)

---------------------------------------------------------------------------
(* getrepofrompage                                                         *)

HTTP_OK == 200

FETCH_URL_ATTR == <<"d", "a", "t", "a", "-", "f", "e", "t", "c", "h", "-", "u", "r", "l", "=", "\"">>

HG_CLONE == <<"h", "g", " ", "c", "l", "o", "n", "e">>

GIT_CLONE == <<"g", "i", "t", " ", "c", "l", "o", "n", "e">>

DOT_GIT == <<".", "g", "i", "t">>

\* (None, reason): detail is the text the code appends to or embeds in the reason
NoRepo(reason, detail) ==
    [repotype |-> "None", repo |-> EMPTY, reason |-> reason, detail |-> detail]

\* (repotype, repo)
FoundRepo(repotype, repo) ==
    [repotype |-> repotype, repo |-> repo, reason |-> "none", detail |-> EMPTY]

\* re.search('data-fetch-url="(.*)"', page): the leftmost start, and from it the
\* longest match; '.' matches no newline. Returns the group, or found = FALSE.
SearchFetchUrl(pg) ==
    LET n == Len(FETCH_URL_ATTR)
        closing(i) == {j \in (i + n)..Len(pg) :
                          /\ pg[j] = "\""
                          /\ \A k \in (i + n)..(j - 1) : pg[k] # "\n"}
        starts == {i \in 1..(Len(pg) - n + 1) :
                      /\ SubSeq(pg, i, i + n - 1) = FETCH_URL_ATTR
                      /\ closing(i) # {}}
    IN  IF starts = {} THEN [found |-> FALSE, group |-> EMPTY]
        ELSE LET i == Min(starts)
                 j == Max(closing(i))
             IN  [found |-> TRUE, group |-> SubSeq(pg, i + n, j - 1)]

\* The 'hg clone' / 'git clone' heuristic once the marker was found at index.
CloneMarkerRepo(pg, index, skip, repotype) ==
    LET rest == DropFirst(pg, index + skip)
        lt == Find(rest, <<"<">>)
    IN  IF lt = -1 THEN NoRepo("Error while getting repo address", EMPTY)
        ELSE FoundRepo(repotype, SplitFirst(TakeFirst(rest, lt), "\""))

GetRepoFromPage(u, status, pg) ==
    IF ~StartsWith(u, <<"h", "t", "t", "p">>) THEN NoRepo("does not start with http", u)
    ELSE IF status # HTTP_OK THEN NoRepo("Unable to get url - return code", u)
    ELSE LET m == SearchFetchUrl(pg)
             hg == Find(pg, HG_CLONE)
             git == Find(pg, GIT_CLONE)
         IN  IF m.found
             THEN IF EndsWith(m.group, DOT_GIT) THEN FoundRepo("git", m.group)
                  ELSE FoundRepo("hg", m.group)
             ELSE IF hg # -1 THEN CloneMarkerRepo(pg, hg, 9, "hg")
             ELSE IF git # -1 THEN CloneMarkerRepo(pg, git, 10, "git")
             ELSE NoRepo("No information found.", pg)

---------------------------------------------------------------------------
(* get_app_from_url                                                        *)

\* raise FDroidException(...): error is the message, repo and reason what
\* the message embeds
Raise(message, repo, reason) ==
    [kind |-> "error", error |-> message, repo |-> repo, reason |-> reason]

\* the normalisation left out: the URL is used as given
StripDotGit_Never(u) == u

\* lines 115-116 and 124-125: if url.endswith('.git'): url = url[:-4]
StripDotGit(u) == IF EndsWith(u, DOT_GIT) THEN DropLast(u, 4) ELSE u

\* lines 132-133: if url.endswith('/'): url = url[:-1]
StripSlash(u) == IF EndsWith(u, <<"/">>) THEN DropLast(u, 1) ELSE u

\* the scheme test left out: only an address with a space is refused
RepoAddressRefused_SpaceOnly(repotype, repo) == Contains(repo, " ")

\* the condition of lines 156-159, under which the address is refused
RepoAddressRefused(repotype, repo) ==
    \/ /\ repotype # "bzr"
       /\ ~StartsWith(repo, <<"h", "t", "t", "p", ":", "/", "/">>)
       /\ ~StartsWith(repo, <<"h", "t", "t", "p", "s", ":", "/", "/">>)
       /\ ~StartsWith(repo, <<"g", "i", "t", ":", "/", "/">>)
    \/ Contains(repo, " ")

\* The if/elif chain of lines 99-146: the project type and the fields derived
\* from the URL; projecttype "None" when no branch is taken. scraped is what
\* getrepofrompage returns for the bitbucket branch.
Derive(u, scraped) ==
    IF StartsWith(u, <<"g", "i", "t", ":", "/", "/">>)
    THEN [projecttype |-> "git", repotype |-> "git", repo |-> u,
          SourceCode |-> EMPTY, IssueTracker |-> EMPTY, WebSite |-> EMPTY]
    ELSE IF StartsWith(u, <<"h", "t", "t", "p", "s", ":", "/", "/", "g", "i", "t", "h", "u", "b", ".", "c", "o", "m">>)
    THEN [projecttype |-> "github", repotype |-> "git", repo |-> u,
          SourceCode |-> u, IssueTracker |-> u \o <<"/", "i", "s", "s", "u", "e", "s">>, WebSite |-> EMPTY]
    ELSE IF StartsWith(u, <<"h", "t", "t", "p", "s", ":", "/", "/", "g", "i", "t", "l", "a", "b", ".", "c", "o", "m", "/">>)
    THEN LET v == StripDotGit(u)
         IN  [projecttype |-> "gitlab", repotype |-> "git", repo |-> v \o DOT_GIT,
              SourceCode |-> v \o <<"/", "t", "r", "e", "e", "/", "H", "E", "A", "D">>, IssueTracker |-> v \o <<"/", "i", "s", "s", "u", "e", "s">>,
              WebSite |-> v]
    ELSE IF StartsWith(u, <<"h", "t", "t", "p", "s", ":", "/", "/", "n", "o", "t", "a", "b", "u", "g", ".", "o", "r", "g", "/">>)
    THEN LET v == StripDotGit(u)
         IN  [projecttype |-> "notabug", repotype |-> "git", repo |-> v \o DOT_GIT,
              SourceCode |-> v, IssueTracker |-> v \o <<"/", "i", "s", "s", "u", "e", "s">>, WebSite |-> EMPTY]
    ELSE IF StartsWith(u, <<"h", "t", "t", "p", "s", ":", "/", "/", "b", "i", "t", "b", "u", "c", "k", "e", "t", ".", "o", "r", "g", "/">>)
    THEN LET v == StripSlash(u)
         IN  [projecttype |-> "bitbucket", repotype |-> scraped.repotype,
              repo |-> scraped.repo,
              SourceCode |-> v \o <<"/", "s", "r", "c">>, IssueTracker |-> v \o <<"/", "i", "s", "s", "u", "e", "s">>,
              WebSite |-> u]
    ELSE IF StartsWith(u, <<"h", "t", "t", "p", "s", ":", "/", "/">>) /\ EndsWith(u, DOT_GIT)
    THEN [projecttype |-> "git", repotype |-> "git", repo |-> u,
          SourceCode |-> EMPTY, IssueTracker |-> EMPTY, WebSite |-> EMPTY]
    ELSE [projecttype |-> "None", repotype |-> "None", repo |-> EMPTY,
          SourceCode |-> EMPTY, IssueTracker |-> EMPTY, WebSite |-> u]

\* get_app_from_url(url); status and pg are what the page fetch of the
\* bitbucket branch answers
GetAppFromUrl(u, status, pg) ==
    LET scraped == GetRepoFromPage(StripSlash(u), status, pg)
        d == Derive(u, scraped)
    IN  IF d.projecttype = "bitbucket" /\ scraped.repotype = "None"
        THEN Raise("Unable to determine vcs type", EMPTY, scraped.reason)
        ELSE IF d.projecttype = "None"
        THEN Raise("Unable to determine the project type", EMPTY, "none")
        ELSE IF RepoAddressRefused(d.repotype, d.repo)
        THEN Raise("Repo address does not seem to be valid", d.repo, "none")
        ELSE [kind |-> "app", projecttype |-> d.projecttype,
              RepoType |-> d.repotype, Repo |-> d.repo,
              SourceCode |-> d.SourceCode, IssueTracker |-> d.IssueTracker,
              WebSite |-> d.WebSite]

---------------------------------------------------------------------------
(* Inputs of the scraper and the classifier.                               *)

\* Status codes urlopen hands back without raising: 200 and another 2xx.
StatusCodes == {HTTP_OK, 204}

\* Fragments a fetched project page is made of.
Segments ==
    { <<"d", "a", "t", "a", "-", "f", "e", "t", "c", "h", "-", "u", "r", "l", "=", "\"", "h", "t", "t", "p", "s", ":", "/", "/", "h", "/", "r", "\"">>,
      <<"d", "a", "t", "a", "-", "f", "e", "t", "c", "h", "-", "u", "r", "l", "=", "\"", "h", "t", "t", "p", "s", ":", "/", "/", "h", "/", "r", ".", "g", "i", "t", "\"">>,
      <<"d", "a", "t", "a", "-", "f", "e", "t", "c", "h", "-", "u", "r", "l", "=", "\"", "g", "i", "t", "@", "h", ":", "r", ".", "g", "i", "t", "\"">>,
      <<"d", "a", "t", "a", "-", "f", "e", "t", "c", "h", "-", "u", "r", "l", "=", "\"", "h", "t", "t", "p", "s", ":", "/", "/", "h", "/", "a", " ", "b", "\"">>,
      <<"d", "a", "t", "a", "-", "f", "e", "t", "c", "h", "-", "u", "r", "l", "=", "\"", "h", "t", "t", "p", "s", ":", "/", "/", "h", "/", "a", "\t", "b", "\"">>,
      <<"d", "a", "t", "a", "-", "f", "e", "t", "c", "h", "-", "u", "r", "l", "=", "\"", "\"">>,
      <<"h", "g", " ", "c", "l", "o", "n", "e", " ", "h", "t", "t", "p", "s", ":", "/", "/", "h", "/", "r", "<">>,
      <<"h", "g", " ", "c", "l", "o", "n", "e", " ", "h", "t", "t", "p", "s", ":", "/", "/", "h", "/", "r", "\"">>,
      <<"h", "g", " ", "c", "l", "o", "n", "e", " ", "h", "t", "t", "p", "s", ":", "/", "/", "h", "/", "r", "\"", ">", "<">>,
      <<"h", "g", " ", "c", "l", "o", "n", "e", " ", "h", "t", "t", "p", "s", ":", "/", "/", "h", "/", "r">>,
      <<"g", "i", "t", " ", "c", "l", "o", "n", "e", " ", "h", "t", "t", "p", "s", ":", "/", "/", "h", "/", "r", ".", "g", "i", "t", "<">>,
      <<"g", "i", "t", " ", "c", "l", "o", "n", "e", " ", "g", "i", "t", "@", "h", ":", "r", ".", "g", "i", "t", "<">>,
      <<"g", "i", "t", " ", "c", "l", "o", "n", "e", " ", "h", "t", "t", "p", "s", ":", "/", "/", "h", "/", "r", ".", "g", "i", "t">>,
      <<"<", "p", ">", "x">>,
      <<"\n">> }

\* Pages of at most n fragments.
RECURSIVE PagesOf(_)
PagesOf(n) ==
    IF n = 0 THEN {EMPTY}
    ELSE LET shorter == PagesOf(n - 1)
         IN  shorter \cup {p \o s : p \in shorter, s \in Segments}

Pages == PagesOf(MaxSegs)

\* Pages the classifier's fetch may be answered with.
ProjectPages == PagesOf(1)

\* Strings of at most n characters of cs.
RECURSIVE StringsOf(_, _)
StringsOf(cs, n) ==
    IF n = 0 THEN {EMPTY}
    ELSE LET shorter == StringsOf(cs, n - 1)
         IN  shorter \cup {Append(s, c) : s \in shorter, c \in cs}

UrlHeads ==
    { <<"g", "i", "t", ":", "/", "/", "h", "/">>, <<"h", "t", "t", "p", "s", ":", "/", "/", "g", "i", "t", "h", "u", "b", ".", "c", "o", "m", "/">>, <<"h", "t", "t", "p", "s", ":", "/", "/", "g", "i", "t", "h", "u", "b", ".", "c", "o", "m", "m", "u", "n", "i", "t", "y", "/">>, <<"h", "t", "t", "p", "s", ":", "/", "/", "g", "i", "t", "l", "a", "b", ".", "c", "o", "m", "/">>,
      <<"h", "t", "t", "p", "s", ":", "/", "/", "g", "i", "t", "l", "a", "b", ".", "c", "o", "m">>, <<"h", "t", "t", "p", "s", ":", "/", "/", "n", "o", "t", "a", "b", "u", "g", ".", "o", "r", "g", "/">>,
      <<"h", "t", "t", "p", "s", ":", "/", "/", "b", "i", "t", "b", "u", "c", "k", "e", "t", ".", "o", "r", "g", "/">>, <<"h", "t", "t", "p", "s", ":", "/", "/", "h", "/">>, <<"h", "t", "t", "p", ":", "/", "/", "h", "/">>,
      <<"f", "t", "p", ":", "/", "/", "e", "x", "a", "m", "p", "l", "e", ".", "c", "o", "m", "/">>, <<"g", "i", "t", "@", "h", ":">>, EMPTY }

UrlBodyChars == {"x", " ", "\t"}

UrlTails == {EMPTY, DOT_GIT, <<"/">>}

Urls == {h \o b \o t : h \in UrlHeads, b \in StringsOf(UrlBodyChars, MaxBody), t \in UrlTails}

ScrapeUrls == { <<"h", "t", "t", "p", "s", ":", "/", "/", "b", "i", "t", "b", "u", "c", "k", "e", "t", ".", "o", "r", "g", "/", "x">>, <<"h", "t", "t", "p", ":", "/", "/", "h", "/", "x">>, <<"f", "t", "p", ":", "/", "/", "h", "/", "x">> }

NotCalled == NoRepo("not called", EMPTY)

NoApp == Raise("not called", EMPTY, "none")

\* nothing checked out yet, nothing scanned
NoCheckout == tree = <<>> /\ paths = <<>> /\ subdir = EMPTY

\* no import run
NoRun ==
    /\ env = [urlGiven |-> FALSE, isGit |-> FALSE, localMetadata |-> FALSE,
              subdir |-> EMPTY]
    /\ package = "None"
    /\ stages = <<>>
    /\ vcs = <<>>
    /\ written = <<>>
    /\ error = "none"

\* nothing classified yet
NoClassification ==
    url = EMPTY /\ code = HTTP_OK /\ page = EMPTY /\ repoinfo = NotCalled /\ app = NoApp

---------------------------------------------------------------------------
(* The scraper on its own: one call of getrepofrompage.                    *)

InitScrape ==
    /\ pc = "start"
    /\ url \in ScrapeUrls
    /\ code = HTTP_OK
    /\ page = EMPTY
    /\ repoinfo = NotCalled
    /\ app = NoApp
    /\ NoCheckout
    /\ NoRun

CallGetRepoFromPage ==
    /\ pc = "start"
    /\ \E status \in StatusCodes, pg \in Pages :
          /\ code' = status
          /\ page' = pg
          /\ repoinfo' = GetRepoFromPage(url, status, pg)
    /\ pc' = "done"
    /\ UNCHANGED <<url, app, treeVars, runVars>>

NextScrape == CallGetRepoFromPage

SpecScrape == InitScrape /\ [][NextScrape]_vars

---------------------------------------------------------------------------
(* The classifier on its own: one call of get_app_from_url.                *)

InitClassify ==
    /\ pc = "start"
    /\ url \in Urls
    /\ code = HTTP_OK
    /\ page = EMPTY
    /\ repoinfo = NotCalled
    /\ app = NoApp
    /\ NoCheckout
    /\ NoRun

\* get_app_from_url(url). The page is fetched in the bitbucket branch only;
\* repoinfo keeps what getrepofrompage returned there.
CallGetAppFromUrl ==
    /\ pc = "start"
    /\ IF StartsWith(url, <<"h", "t", "t", "p", "s", ":", "/", "/", "b", "i", "t", "b", "u", "c", "k", "e", "t", ".", "o", "r", "g", "/">>)
       THEN \E status \in StatusCodes, pg \in ProjectPages :
               /\ code' = status
               /\ page' = pg
               /\ repoinfo' = GetRepoFromPage(StripSlash(url), status, pg)
               /\ app' = GetAppFromUrl(url, status, pg)
       ELSE /\ app' = GetAppFromUrl(url, code, page)
            /\ UNCHANGED <<code, page, repoinfo>>
    /\ pc' = "done"
    /\ UNCHANGED <<url, treeVars, runVars>>

NextClassify == CallGetAppFromUrl

SpecClassify == InitClassify /\ [][NextClassify]_vars

---------------------------------------------------------------------------
(* Paths and the checked-out tree.                                         *)
(*                                                                         *)
(* A path is the sequence of its components, each a string. The tree maps  *)
(* the path of every file, relative to the build directory, to its text.   *)

DOT == <<".">>

DOTDOT == <<".", ".">>

\* tmp_dir of clone_to_tmp_dir
BuildDir == << <<"t", "m", "p">>, <<"i", "m", "p", "o", "r", "t", "e", "r">> >>

\* os.path.dirname
DirName(p) == DropLast(p, 1)

\* os.path.basename
BaseName(p) == p[Len(p)]

\* the components of a '/'-separated string
RECURSIVE SplitPath(_)
SplitPath(s) ==
    LET i == Find(s, <<"/">>)
    IN  IF i = -1 THEN <<s>> ELSE <<TakeFirst(s, i)>> \o SplitPath(DropFirst(s, i + 1))

\* the '/'-separated string of a non-empty component sequence
RECURSIVE JoinPath(_)
JoinPath(p) ==
    IF Len(p) = 1 THEN p[1] ELSE JoinPath(DropLast(p, 1)) \o <<"/">> \o BaseName(p)

\* os.path.normpath: '.' dropped, 'x/..' collapsed
RECURSIVE NormPath(_)
NormPath(p) ==
    IF p = <<>> THEN <<>>
    ELSE LET front == NormPath(DropLast(p, 1))
             last == BaseName(p)
         IN  IF last = DOT \/ last = EMPTY THEN front
             ELSE IF last = DOTDOT /\ front # <<>> /\ BaseName(front) # DOTDOT
                  THEN DropLast(front, 1)
             ELSE Append(front, last)

\* os.path.relpath(p, start), as a string
RelPath(p, start) ==
    LET a == NormPath(p)
        b == NormPath(start)
        shorter == IF Len(a) < Len(b) THEN Len(a) ELSE Len(b)
        k == Max({n \in 0..shorter : SubSeq(a, 1, n) = SubSeq(b, 1, n)})
        rel == [i \in 1..(Len(b) - k) |-> DOTDOT] \o DropFirst(a, k)
    IN  IF rel = <<>> THEN DOT ELSE JoinPath(rel)

\* The file of the tree that full path p names, as a path relative to the
\* build directory; inTree = FALSE when p names no file of the tree.
Resolve(tr, p) ==
    LET a == NormPath(p)
        n == Len(BuildDir)
    IN  IF Len(a) > n /\ SubSeq(a, 1, n) = BuildDir /\ DropFirst(a, n) \in DOMAIN tr
        THEN [inTree |-> TRUE, rel |-> DropFirst(a, n)]
        ELSE [inTree |-> FALSE, rel |-> <<>>]

\* os.path.exists(p) for the path of a file
Exists(tr, p) == Resolve(tr, p).inTree

\* open(p).read()
ReadFile(tr, p) == tr[Resolve(tr, p).rel]

\* Characters in ascending code point order.
ASCII == <<"-", ".", "0", "1", "2", "3", "4", "5", "6", "7", "8", "9", "A", "B", "C", "D", "E", "F", "G", "H", "I", "J", "K", "L", "M", "N", "O", "P", "Q", "R", "S", "T", "U", "V", "W", "X", "Y", "Z", "_", "a", "b", "c", "d", "e", "f", "g", "h", "i", "j", "k", "l", "m", "n", "o", "p", "q", "r", "s", "t", "u", "v", "w", "x", "y", "z">>

Ord(c) == CHOOSE i \in 1..Len(ASCII) : ASCII[i] = c

\* a <= b for Python strings
RECURSIVE StrLeq(_, _)
StrLeq(a, b) ==
    IF a = EMPTY THEN TRUE
    ELSE IF b = EMPTY THEN FALSE
    ELSE IF a[1] = b[1] THEN StrLeq(Tail(a), Tail(b))
    ELSE Ord(a[1]) < Ord(b[1])

\* sorted(names)
RECURSIVE Sorted(_)
Sorted(names) ==
    IF names = {} THEN <<>>
    ELSE LET least == CHOOSE x \in names : \A y \in names : StrLeq(x, y)
         IN  <<least>> \o Sorted(names \ {least})

---------------------------------------------------------------------------
(* get_all_gradle_and_manifests                                            *)

\* files of os.walk's triple for directory dir (relative to the build dir)
FilesIn(tr, dir) == {BaseName(p) : p \in {q \in DOMAIN tr : DirName(q) = dir}}

\* the subdirectories of dir
SubdirsIn(tr, dir) ==
    {p[Len(dir) + 1] : p \in {q \in DOMAIN tr :
                                 Len(q) > Len(dir) + 1 /\ SubSeq(q, 1, Len(dir)) = dir}}

\* dirs of os.walk's triple: the subdirectories in the order the filesystem
\* enumerates them, which is the order their names have in listing
RECURSIVE DirsIn(_, _, _)
DirsIn(tr, dir, listing) ==
    IF listing = <<>> THEN <<>>
    ELSE (IF Head(listing) \in SubdirsIn(tr, dir) THEN <<Head(listing)>> ELSE <<>>)
         \o DirsIn(tr, dir, Tail(listing))

\* lines 187-188
IsBuildFile(f) ==
    \/ f = <<"A", "n", "d", "r", "o", "i", "d", "M", "a", "n", "i", "f", "e", "s", "t", ".", "x", "m", "l">>
    \/ EndsWith(f, <<".", "g", "r", "a", "d", "l", "e">>)
    \/ EndsWith(f, <<".", "g", "r", "a", "d", "l", "e", ".", "k", "t", "s">>)

\* the body of the walk loop for one directory: lines 186-190
RECURSIVE KeepBuildFiles(_, _)
KeepBuildFiles(root, files) ==
    IF files = <<>> THEN <<>>
    ELSE (IF IsBuildFile(Head(files)) THEN <<root \o <<Head(files)>>>> ELSE <<>>)
         \o KeepBuildFiles(root, Tail(files))

\* the order in which the files of one directory are taken: line 186
FileOrder(files) == Sorted(files)

\* os.walk(build_dir), top down, with the loop body applied to each triple
RECURSIVE WalkFrom(_, _, _, _)
RECURSIVE WalkEach(_, _, _, _, _)
WalkFrom(tr, buildDir, dir, listing) ==
    KeepBuildFiles(buildDir \o dir, FileOrder(FilesIn(tr, dir)))
        \o WalkEach(tr, buildDir, dir, DirsIn(tr, dir, listing), listing)

WalkEach(tr, buildDir, dir, dirs, listing) ==
    IF dirs = <<>> THEN <<>>
    ELSE WalkFrom(tr, buildDir, Append(dir, Head(dirs)), listing)
         \o WalkEach(tr, buildDir, dir, Tail(dirs), listing)

GetAllGradleAndManifests(tr, buildDir, listing) == WalkFrom(tr, buildDir, <<>>, listing)

---------------------------------------------------------------------------
(* get_gradle_subdir                                                       *)

QUOTES == {"'", "\""}

\* characters \s matches
SPACES == {" ", "\t", "\n", "\r", "\f"}

\* SETTINGS_GRADLE.match(name): the pattern is anchored at the start only
MatchSettingsGradle(name) ==
    \/ StartsWith(name, <<"s", "e", "t", "t", "i", "n", "g", "s", ".", "g", "r", "a", "d", "l", "e", ".", "k", "t", "s">>)
    \/ StartsWith(name, <<"s", "e", "t", "t", "i", "n", "g", "s", ".", "g", "r", "a", "d", "l", "e">>)

\* GRADLE_SUBPROJECT.finditer(text): the groups of the successive matches of
\* a quote, a colon, one or more characters that are no quote, a quote
RECURSIVE FindSubprojects(_)
FindSubprojects(text) ==
    LET opens == {i \in 1..(Len(text) - 3) :
                     /\ text[i] \in QUOTES
                     /\ text[i + 1] = ":"
                     /\ text[i + 2] \notin QUOTES
                     /\ \E j \in (i + 3)..Len(text) : text[j] \in QUOTES}
    IN  IF opens = {} THEN <<>>
        ELSE LET i == Min(opens)
                 j == Min({k \in (i + 3)..Len(text) : text[k] \in QUOTES})
             IN  <<SubSeq(text, i + 2, j - 1)>> \o FindSubprojects(DropFirst(text, j))

\* s without its leading whitespace
RECURSIVE SkipSpaces(_)
SkipSpaces(s) ==
    IF s # EMPTY /\ s[1] \in SPACES THEN SkipSpaces(Tail(s)) ELSE s

\* ANDROID_PLUGIN.match(line)
MatchAndroidPlugin(line) ==
    LET r == SkipSpaces(line)
    IN  \E kw \in { <<":", "a", "p", "p", "l", "y", " ", "p", "l", "u", "g", "i", "n", ":">>, <<"a", "p", "p", "l", "y", " ", "p", "l", "u", "g", "i", "n", ":">>, <<"i", "d">> } :
           /\ StartsWith(r, kw)
           /\ LET r2 == DropFirst(r, Len(kw))
                  r3 == SkipSpaces(IF StartsWith(r2, <<"(">>) THEN Tail(r2) ELSE r2)
              IN  \E q1 \in QUOTES, q2 \in QUOTES,
                     n \in { <<"a", "n", "d", "r", "o", "i", "d">>, <<"c", "o", "m", ".", "a", "n", "d", "r", "o", "i", "d", ".", "a", "p", "p", "l", "i", "c", "a", "t", "i", "o", "n">> } :
                     StartsWith(r3, <<q1>> \o n \o <<q2>>)

\* the lines fp.readline() yields, without their line ends
RECURSIVE ReadLines(_)
ReadLines(text) ==
    LET i == Find(text, <<"\n">>)
    IN  IF text = EMPTY THEN <<>>
        ELSE IF i = -1 THEN <<text>>
        ELSE <<TakeFirst(text, i)>> \o ReadLines(DropFirst(text, i + 1))

\* lines 204-210: some line of build file f matches ANDROID_PLUGIN
HasPluginLine(tr, f) ==
    LET lines == ReadLines(ReadFile(tr, f))
    IN  \E i \in 1..Len(lines) : MatchAndroidPlugin(lines[i])

\* glob.glob(os.path.join(dir, 'build.gradle*'))
GlobBuildGradle(tr, dir) ==
    {f \in {dir \o <<BaseName(p)>> : p \in DOMAIN tr} :
        /\ Exists(tr, f)
        /\ StartsWith(BaseName(f), <<"b", "u", "i", "l", "d", ".", "g", "r", "a", "d", "l", "e">>)}

\* the plugin test left out: the first declared subproject that has a
\* build.gradle* file at all
RECURSIVE FirstAppModule_AnyBuildFile(_, _, _)
FirstAppModule_AnyBuildFile(tr, settingsDir, names) ==
    IF names = <<>> THEN [found |-> FALSE, dir |-> <<>>]
    ELSE LET dir == settingsDir \o SplitPath(Head(names))
         IN  IF GlobBuildGradle(tr, dir) # {}
             THEN [found |-> TRUE, dir |-> dir]
             ELSE FirstAppModule_AnyBuildFile(tr, settingsDir, Tail(names))

\* lines 202-210 for one settings file: the directory of the first declared
\* subproject with a build.gradle* file that has a plugin line
RECURSIVE FirstAppModule(_, _, _)
FirstAppModule(tr, settingsDir, names) ==
    IF names = <<>> THEN [found |-> FALSE, dir |-> <<>>]
    ELSE LET dir == settingsDir \o SplitPath(Head(names))
         IN  IF \E f \in GlobBuildGradle(tr, dir) : HasPluginLine(tr, f)
             THEN [found |-> TRUE, dir |-> dir]
             ELSE FirstAppModule(tr, settingsDir, Tail(names))

\* line 200: the file is read for subproject declarations
IsSettingsFile(tr, p) == Exists(tr, p) /\ MatchSettingsGradle(BaseName(p))

\* the loop of lines 197-210 from the given paths on
RECURSIVE SearchSettings(_, _)
SearchSettings(tr, ps) ==
    IF ps = <<>> THEN [found |-> FALSE, dir |-> <<>>]
    ELSE LET hit == IF IsSettingsFile(tr, Head(ps))
                    THEN FirstAppModule(tr, DirName(Head(ps)),
                                        FindSubprojects(ReadFile(tr, Head(ps))))
                    ELSE [found |-> FALSE, dir |-> <<>>]
         IN  IF hit.found THEN hit ELSE SearchSettings(tr, Tail(ps))

\* lines 211-214: the value returned when no settings file gave a module
Fallback(buildDir, ps) ==
    LET first_gradle_dir == RelPath(DirName(ps[1]), buildDir)
    IN  IF ps # <<>> /\ first_gradle_dir # DOT THEN first_gradle_dir ELSE EMPTY

\* line 210: the value returned for the module found
ModuleSubdir(buildDir, dir) == RelPath(dir, buildDir)

GetGradleSubdir(tr, buildDir, ps) ==
    LET hit == SearchSettings(tr, ps)
    IN  IF hit.found THEN ModuleSubdir(buildDir, hit.dir) ELSE Fallback(buildDir, ps)

---------------------------------------------------------------------------
(* Checked-out trees.                                                      *)

File(path, text) == [path |-> SplitPath(path), text |-> text]

\* the tree holding the given files, one per path
TreeOf(files) ==
    [p \in {f.path : f \in files} |-> (CHOOSE f \in files : f.path = p).text]

\* the sets of at most n files of pool with distinct paths
TreesOf(pool, n) ==
    {TreeOf(files) : files \in {S \in SUBSET pool :
                                   /\ Cardinality(S) <= n
                                   /\ \A f, g \in S : f.path = g.path => f = g}}

\* the orders in which a filesystem may enumerate directories: every
\* arrangement of the directory names of the tree
DirNames(tr) == UNION {{p[i] : i \in 1..(Len(p) - 1)} : p \in DOMAIN tr}

Listings(tr) ==
    LET names == DirNames(tr)
        n == Cardinality(names)
    IN  {s \in [1..n -> names] : \A i, j \in 1..n : s[i] = s[j] => i = j}

\* files told apart by their names only
ScanPool ==
    { File(<<"a", "/", "A", "n", "d", "r", "o", "i", "d", "M", "a", "n", "i", "f", "e", "s", "t", ".", "x", "m", "l">>, EMPTY),
      File(<<"a", "/", "b", "u", "i", "l", "d", ".", "g", "r", "a", "d", "l", "e">>, EMPTY),
      File(<<"b", "/", "n", "o", "t", "e", "s", ".", "t", "x", "t">>, EMPTY),
      File(<<"b", "/", "b", "u", "i", "l", "d", ".", "g", "r", "a", "d", "l", "e", ".", "k", "t", "s">>, EMPTY),
      File(<<"b", "/", "g", "r", "a", "d", "l", "e">>, EMPTY),
      File(<<"b", "/", "A", "n", "d", "r", "o", "i", "d", "M", "a", "n", "i", "f", "e", "s", "t", ".", "x", "m", "l", ".", "o", "r", "i", "g">>, EMPTY),
      File(<<"a", "/", "c", "/", "s", "e", "t", "t", "i", "n", "g", "s", ".", "g", "r", "a", "d", "l", "e">>, EMPTY),
      File(<<"b", "u", "i", "l", "d", ".", "g", "r", "a", "d", "l", "e">>, EMPTY),
      File(<<"A", "n", "d", "r", "o", "i", "d", "M", "a", "n", "i", "f", "e", "s", "t", ".", "x", "m", "l">>, EMPTY) }

SETTINGS_APP_LIB == <<"r", "o", "o", "t", "P", "r", "o", "j", "e", "c", "t", ".", "n", "a", "m", "e", " ", "=", " ", "'", "d", "e", "m", "o", "'", "\n", "i", "n", "c", "l", "u", "d", "e", " ", "'", ":", "a", "p", "p", "'", ",", " ", "'", ":", "l", "i", "b", "'", "\n">>

SETTINGS_LIB_APP == <<"i", "n", "c", "l", "u", "d", "e", " ", "'", ":", "l", "i", "b", "'", "\n", "i", "n", "c", "l", "u", "d", "e", " ", "'", ":", "a", "p", "p", "'", "\n">>

SETTINGS_KTS == <<"i", "n", "c", "l", "u", "d", "e", "(", "\"", ":", "l", "i", "b", "\"", ",", " ", "\"", ":", "a", "p", "p", "\"", ")", "\n">>

SETTINGS_ROOT == <<"i", "n", "c", "l", "u", "d", "e", " ", "'", ":", ".", "'", ",", " ", "'", ":", "l", "i", "b", "'", "\n">>

SETTINGS_UP == <<"i", "n", "c", "l", "u", "d", "e", " ", "'", ":", ".", ".", "'", ",", " ", "'", ":", "m", "a", "i", "n", "'", "\n">>

BUILD_APP == <<"/", "/", " ", "a", "p", "p", "\n", "a", "p", "p", "l", "y", " ", "p", "l", "u", "g", "i", "n", ":", " ", "'", "c", "o", "m", ".", "a", "n", "d", "r", "o", "i", "d", ".", "a", "p", "p", "l", "i", "c", "a", "t", "i", "o", "n", "'", "\n">>

BUILD_APP_KTS == <<"p", "l", "u", "g", "i", "n", "s", " ", "{", "\n", " ", " ", " ", " ", "i", "d", "(", "\"", "c", "o", "m", ".", "a", "n", "d", "r", "o", "i", "d", ".", "a", "p", "p", "l", "i", "c", "a", "t", "i", "o", "n", "\"", ")", "\n", "}", "\n">>

BUILD_LIB == <<"a", "p", "p", "l", "y", " ", "p", "l", "u", "g", "i", "n", ":", " ", "'", "c", "o", "m", ".", "a", "n", "d", "r", "o", "i", "d", ".", "l", "i", "b", "r", "a", "r", "y", "'", "\n">>

\* settings files and build files of a Gradle project
GradlePool ==
    { File(<<"s", "e", "t", "t", "i", "n", "g", "s", ".", "g", "r", "a", "d", "l", "e">>, SETTINGS_APP_LIB),
      File(<<"s", "e", "t", "t", "i", "n", "g", "s", ".", "g", "r", "a", "d", "l", "e">>, SETTINGS_LIB_APP),
      File(<<"s", "e", "t", "t", "i", "n", "g", "s", ".", "g", "r", "a", "d", "l", "e">>, SETTINGS_ROOT),
      File(<<"s", "e", "t", "t", "i", "n", "g", "s", ".", "g", "r", "a", "d", "l", "e", ".", "k", "t", "s">>, SETTINGS_KTS),
      File(<<"s", "e", "t", "t", "i", "n", "g", "s", ".", "g", "r", "a", "d", "l", "e", ".", "o", "l", "d", ".", "g", "r", "a", "d", "l", "e">>, SETTINGS_APP_LIB),
      File(<<"s", "r", "c", "/", "s", "e", "t", "t", "i", "n", "g", "s", ".", "g", "r", "a", "d", "l", "e">>, SETTINGS_UP),
      File(<<"b", "u", "i", "l", "d", ".", "g", "r", "a", "d", "l", "e">>, BUILD_LIB),
      File(<<"b", "u", "i", "l", "d", ".", "g", "r", "a", "d", "l", "e">>, BUILD_APP),
      File(<<"a", "p", "p", "/", "b", "u", "i", "l", "d", ".", "g", "r", "a", "d", "l", "e">>, BUILD_LIB),
      File(<<"a", "p", "p", "/", "b", "u", "i", "l", "d", ".", "g", "r", "a", "d", "l", "e">>, BUILD_APP),
      File(<<"l", "i", "b", "/", "b", "u", "i", "l", "d", ".", "g", "r", "a", "d", "l", "e", ".", "k", "t", "s">>, BUILD_LIB),
      File(<<"l", "i", "b", "/", "b", "u", "i", "l", "d", ".", "g", "r", "a", "d", "l", "e", ".", "k", "t", "s">>, BUILD_APP_KTS),
      File(<<"s", "r", "c", "/", "m", "a", "i", "n", "/", "b", "u", "i", "l", "d", ".", "g", "r", "a", "d", "l", "e">>, BUILD_APP),
      File(<<"s", "r", "c", "/", "m", "a", "i", "n", "/", "A", "n", "d", "r", "o", "i", "d", "M", "a", "n", "i", "f", "e", "s", "t", ".", "x", "m", "l">>, <<"<", "m", "a", "n", "i", "f", "e", "s", "t", "/", ">">>) }

---------------------------------------------------------------------------
(* The scanner and the resolver on a checked-out tree.                     *)

InitScan ==
    /\ pc = "start"
    /\ NoClassification
    /\ tree \in TreesOf(ScanPool, MaxFiles)
    /\ paths = <<>>
    /\ subdir = EMPTY
    /\ NoRun

InitResolve ==
    /\ pc = "start"
    /\ NoClassification
    /\ tree \in TreesOf(GradlePool, MaxGradleFiles)
    /\ paths = <<>>
    /\ subdir = EMPTY
    /\ NoRun

\* paths = get_all_gradle_and_manifests(build_dir), the filesystem
\* enumerating the directories in some order
CallGetAllGradleAndManifests ==
    /\ pc = "start"
    /\ \E listing \in Listings(tree) :
          paths' = GetAllGradleAndManifests(tree, BuildDir, listing)
    /\ pc' = "scanned"
    /\ UNCHANGED <<classifyVars, tree, subdir, runVars>>

\* subdir = get_gradle_subdir(build_dir, paths)
CallGetGradleSubdir ==
    /\ pc = "scanned"
    /\ subdir' = GetGradleSubdir(tree, BuildDir, paths)
    /\ pc' = "done"
    /\ UNCHANGED <<classifyVars, tree, paths, runVars>>

NextScan == CallGetAllGradleAndManifests

SpecScan == InitScan /\ [][NextScan]_vars

NextResolve == CallGetAllGradleAndManifests \/ CallGetGradleSubdir

SpecResolve == InitResolve /\ [][NextResolve]_vars

---------------------------------------------------------------------------
(* main: one import run.                                                   *)

\* URLs given with --url; the empty one stands for --url ''
RunUrls ==
    { <<"h", "t", "t", "p", "s", ":", "/", "/", "g", "i", "t", "h", "u", "b", ".", "c", "o", "m", "/", "x", "/", "y">>, <<"h", "t", "t", "p", "s", ":", "/", "/", "g", "i", "t", "l", "a", "b", ".", "c", "o", "m", "/", "x", "/", "y", ".", "g", "i", "t">>,
      <<"h", "t", "t", "p", "s", ":", "/", "/", "b", "i", "t", "b", "u", "c", "k", "e", "t", ".", "o", "r", "g", "/", "x", "/", "y", "/">>, <<"g", "i", "t", ":", "/", "/", "h", "/", "x", " ", "y">>, <<"g", "i", "t", "@", "h", ":", "x", "/", "y", ".", "g", "i", "t">>,
      <<"f", "t", "p", ":", "/", "/", "e", "x", "a", "m", "p", "l", "e", ".", "c", "o", "m", "/", "x">>, EMPTY }

\* trees the VCS client may check out
RunPool ==
    { File(<<"s", "e", "t", "t", "i", "n", "g", "s", ".", "g", "r", "a", "d", "l", "e">>, SETTINGS_LIB_APP),
      File(<<"a", "p", "p", "/", "b", "u", "i", "l", "d", ".", "g", "r", "a", "d", "l", "e">>, BUILD_APP),
      File(<<"l", "i", "b", "/", "b", "u", "i", "l", "d", ".", "g", "r", "a", "d", "l", "e", ".", "k", "t", "s">>, BUILD_LIB),
      File(<<"R", "E", "A", "D", "M", "E", ".", "m", "d">>, <<"d", "e", "m", "o">>) }

\* package ids parse_androidmanifests may find, "None" for none
Packages == {"None", "org.example.new", "org.example.known"}

\* apps = metadata.read_metadata(): the packages that already have metadata
KnownApps == {"org.example.known"}

InitRun ==
    /\ pc = "main"
    /\ env \in [urlGiven : BOOLEAN, isGit : BOOLEAN, localMetadata : BOOLEAN,
                subdir : {EMPTY, <<"c", "u", "s", "t", "o", "m">>}]
    /\ url \in IF env.urlGiven THEN RunUrls ELSE {EMPTY}
    /\ code = HTTP_OK
    /\ page = EMPTY
    /\ repoinfo = NotCalled
    /\ app = NoApp
    /\ NoCheckout
    /\ package = "None"
    /\ stages = <<>>
    /\ vcs = <<>>
    /\ written = <<>>
    /\ error = "none"

\* the exception recorded but not raised: the run goes on where it was
Abort_NotRaised(message) == error' = message /\ pc' = pc

\* raise FDroidException(message): the run ends
Abort(message) == error' = message /\ pc' = "failed"

\* lines 238-278: the checks before any stage, and the choice of the mode
Main ==
    /\ pc = "main"
    /\ IF env.localMetadata
       THEN Abort("This repo already has local metadata")
       ELSE IF ~env.urlGiven /\ env.isGit
       THEN pc' = "local" /\ UNCHANGED error
       ELSE IF env.urlGiven /\ url # EMPTY
       THEN pc' = "classify" /\ UNCHANGED error
       ELSE Abort("Specify project url.")
    /\ UNCHANGED <<classifyVars, treeVars, env, package, stages, vcs, written>>

\* lines 251-270 and 281 of a run without --url in a git working copy:
\* build_dir stays None, and os.walk(None) raises TypeError
ImportLocal ==
    /\ pc = "local"
    /\ app' = [kind |-> "app", projecttype |-> "None", RepoType |-> "git",
               Repo |-> EMPTY, SourceCode |-> EMPTY, IssueTracker |-> EMPTY,
               WebSite |-> EMPTY]
    /\ stages' = stages \o <<"local", "scan">>
    /\ Abort("TypeError")
    /\ UNCHANGED <<url, code, page, repoinfo, treeVars, env, package, vcs, written>>

\* line 272: app = get_app_from_url(options.url)
Classify ==
    /\ pc = "classify"
    /\ IF StartsWith(url, <<"h", "t", "t", "p", "s", ":", "/", "/", "b", "i", "t", "b", "u", "c", "k", "e", "t", ".", "o", "r", "g", "/">>)
       THEN \E status \in StatusCodes, pg \in ProjectPages :
               /\ code' = status
               /\ page' = pg
               /\ repoinfo' = GetRepoFromPage(StripSlash(url), status, pg)
               /\ app' = GetAppFromUrl(url, status, pg)
       ELSE /\ app' = GetAppFromUrl(url, code, page)
            /\ UNCHANGED <<code, page, repoinfo>>
    /\ stages' = Append(stages, "classify")
    /\ IF app'.kind = "error"
       THEN Abort(app'.error)
       ELSE pc' = "checkout" /\ UNCHANGED error
    /\ UNCHANGED <<url, treeVars, env, package, vcs, written>>

\* line 273: build_dir = clone_to_tmp_dir(app); the VCS client is handed the
\* address and checks some tree out, or fails
Checkout ==
    /\ pc = "checkout"
    /\ vcs' = Append(vcs, [RepoType |-> app.RepoType, Repo |-> app.Repo,
                           dir |-> BuildDir])
    /\ stages' = Append(stages, "checkout")
    /\ \/ /\ tree' \in TreesOf(RunPool, MaxFiles)
          /\ pc' = "scan"
          /\ UNCHANGED error
       \/ /\ Abort("VCSException")
          /\ UNCHANGED tree
    /\ UNCHANGED <<classifyVars, paths, subdir, env, package, written>>

\* line 281: paths = get_all_gradle_and_manifests(build_dir)
Scan ==
    /\ pc = "scan"
    /\ \E listing \in Listings(tree) :
          paths' = GetAllGradleAndManifests(tree, BuildDir, listing)
    /\ stages' = Append(stages, "scan")
    /\ pc' = "resolve"
    /\ UNCHANGED <<classifyVars, tree, subdir, env, package, vcs, written, error>>

\* line 282: subdir = get_gradle_subdir(build_dir, paths)
ResolveSubdir ==
    /\ pc = "resolve"
    /\ subdir' = GetGradleSubdir(tree, BuildDir, paths)
    /\ stages' = Append(stages, "resolve")
    /\ pc' = "extract"
    /\ UNCHANGED <<classifyVars, tree, paths, env, package, vcs, written, error>>

\* lines 283-296: the package id and the versions from the build files, and
\* the check that the package is new
Extract ==
    /\ pc = "extract"
    /\ stages' = Append(stages, "extract")
    /\ IF paths # <<>>
       THEN \E found \in Packages :
               /\ package' = found
               /\ IF found = "None" THEN Abort("Couldn't find package ID")
                  ELSE IF found \in KnownApps THEN Abort("Package already exists")
                  ELSE pc' = "write" /\ UNCHANGED error
       ELSE /\ Abort("No gradle project could be found")
            /\ UNCHANGED package
    /\ UNCHANGED <<classifyVars, treeVars, env, vcs, written>>

\* lines 301-304: the subdir of the build record
BuildSubdir == IF env.subdir # EMPTY THEN env.subdir ELSE subdir

\* lines 298-332: the build record and the metadata file
Write ==
    /\ pc = "write"
    /\ stages' = Append(stages, "write")
    /\ written' = Append(written, [package |-> package, RepoType |-> app.RepoType,
                                   Repo |-> app.Repo, subdir |-> BuildSubdir])
    /\ pc' = "done"
    /\ UNCHANGED <<classifyVars, treeVars, env, package, vcs, error>>

Next ==
    \/ Main
    \/ ImportLocal
    \/ Classify
    \/ Checkout
    \/ Scan
    \/ ResolveSubdir
    \/ Extract
    \/ Write

Init == InitRun

Spec == Init /\ [][Next]_vars

---------------------------------------------------------------------------
(* Claims about the classifier, checked under SpecClassify.                *)

Whitespace == {" ", "\t", "\n", "\r", "\f"}

Returned == pc = "done" /\ app.kind = "app"

Failed(message) == pc = "done" /\ app.kind = "error" /\ app.error = message

\* The ProjectLocation invariant as the specification words it.
LocationInvariant(repotype, repo) ==
    /\ repo # EMPTY
    /\ \A i \in 1..Len(repo) : repo[i] \notin Whitespace
    /\ repotype # "bzr" =>
          \/ StartsWith(repo, <<"h", "t", "t", "p", ":", "/", "/">>)
          \/ StartsWith(repo, <<"h", "t", "t", "p", "s", ":", "/", "/">>)
          \/ StartsWith(repo, <<"g", "i", "t", ":", "/", "/">>)

\* C1: every location get_app_from_url returns has a repoAddress that is
\* non-empty, holds no whitespace character of any kind and, unless the VCS is
\* bzr, starts with http://, https:// or git://.
C1_RepoAddressInvariant ==
    Returned => LocationInvariant(app.RepoType, app.Repo)

\* The six rules as the specification lists them.
MatchesSomeRule(u) ==
    \/ StartsWith(u, <<"g", "i", "t", ":", "/", "/">>)
    \/ StartsWith(u, <<"h", "t", "t", "p", "s", ":", "/", "/", "g", "i", "t", "h", "u", "b", ".", "c", "o", "m", "/">>)
    \/ StartsWith(u, <<"h", "t", "t", "p", "s", ":", "/", "/", "g", "i", "t", "l", "a", "b", ".", "c", "o", "m", "/">>)
    \/ StartsWith(u, <<"h", "t", "t", "p", "s", ":", "/", "/", "n", "o", "t", "a", "b", "u", "g", ".", "o", "r", "g", "/">>)
    \/ StartsWith(u, <<"h", "t", "t", "p", "s", ":", "/", "/", "b", "i", "t", "b", "u", "c", "k", "e", "t", ".", "o", "r", "g", "/">>)
    \/ StartsWith(u, <<"h", "t", "t", "p", "s", ":", "/", "/">>) /\ EndsWith(u, DOT_GIT)

\* C2: a location is returned only for a URL one of the six rules matches; any
\* other URL fails as an unsupported location.
C2_OnlyTheSixRules ==
    pc = "done" =>
        /\ app.kind = "app" => MatchesSomeRule(url)
        /\ ~MatchesSomeRule(url) => Failed("Unable to determine the project type")

GitlabWithoutDotGit ==
    /\ pc = "done"
    /\ StartsWith(url, <<"h", "t", "t", "p", "s", ":", "/", "/", "g", "i", "t", "l", "a", "b", ".", "c", "o", "m", "/">>)
    /\ ~EndsWith(url, DOT_GIT)

\* The location the specification gives gitlab display URL u.
GitlabLocation(u) ==
    [kind |-> "app", projecttype |-> "gitlab", RepoType |-> "git",
     Repo |-> u \o DOT_GIT, SourceCode |-> u \o <<"/", "t", "r", "e", "e", "/", "H", "E", "A", "D">>,
     IssueTracker |-> u \o <<"/", "i", "s", "s", "u", "e", "s">>, WebSite |-> u]

\* C3 as stated: for every gitlab URL u not ending in .git, both
\* get_app_from_url(u) and get_app_from_url(u + '.git') return the gitlab
\* location of u.
C3_GitlabAlwaysReturns ==
    GitlabWithoutDotGit =>
        /\ app = GitlabLocation(url)
        /\ GetAppFromUrl(url \o DOT_GIT, code, page) = GitlabLocation(url)

\* C3 amended: for every gitlab URL u not ending in .git, get_app_from_url(u)
\* and get_app_from_url(u + '.git') have the same outcome: the gitlab location
\* of u when u holds no space, and the refusal of the address u + '.git' when
\* it does.
C3_GitlabDotGitNormalised ==
    GitlabWithoutDotGit =>
        /\ GetAppFromUrl(url \o DOT_GIT, code, page) = app
        /\ IF Contains(url, " ")
           THEN app = Raise("Repo address does not seem to be valid",
                            url \o DOT_GIT, "none")
           ELSE app = GitlabLocation(url)

C3_Witness == GitlabWithoutDotGit /\ Returned /\ Len(url) > Len(<<"h", "t", "t", "p", "s", ":", "/", "/", "g", "i", "t", "l", "a", "b", ".", "c", "o", "m", "/">>)

Bitbucket == pc = "done" /\ StartsWith(url, <<"h", "t", "t", "p", "s", ":", "/", "/", "b", "i", "t", "b", "u", "c", "k", "e", "t", ".", "o", "r", "g", "/">>)

\* The validation the classifier applies to an address: a scheme of http://,
\* https:// or git:// (which a git@ address lacks), and no space.
PassesValidation(repo) ==
    /\ \/ StartsWith(repo, <<"h", "t", "t", "p", ":", "/", "/">>)
       \/ StartsWith(repo, <<"h", "t", "t", "p", "s", ":", "/", "/">>)
       \/ StartsWith(repo, <<"g", "i", "t", ":", "/", "/">>)
    /\ \A i \in 1..Len(repo) : repo[i] # " "

\* C4: for a bitbucket URL a location is returned exactly when the scraper,
\* called on the URL less one trailing '/', returned an address that passes
\* the validation; a scraper failure fails the call with the scraper's reason,
\* an address with a space or starting with git@ fails it as an invalid
\* address, and no failure carries a location.
C4_BitbucketNeedsScrapedAddress ==
    Bitbucket =>
        /\ repoinfo = GetRepoFromPage(StripSlash(url), code, page)
        /\ app.kind = "app" <=>
              (repoinfo.repotype # "None" /\ PassesValidation(repoinfo.repo))
        /\ repoinfo.repotype = "None" =>
              /\ Failed("Unable to determine vcs type")
              /\ app.reason = repoinfo.reason
        /\ (/\ repoinfo.repotype # "None"
            /\ \/ Contains(repoinfo.repo, " ")
               \/ StartsWith(repoinfo.repo, <<"g", "i", "t", "@">>)) =>
              /\ Failed("Repo address does not seem to be valid")
              /\ app.repo = repoinfo.repo
        /\ app.kind = "app" =>
              /\ app.RepoType = repoinfo.repotype
              /\ app.Repo = repoinfo.repo
              /\ app.SourceCode = StripSlash(url) \o <<"/", "s", "r", "c">>
              /\ app.IssueTracker = StripSlash(url) \o <<"/", "i", "s", "s", "u", "e", "s">>

C4_Witness ==
    /\ Bitbucket
    /\ repoinfo.repotype = "git"
    /\ StartsWith(repoinfo.repo, <<"g", "i", "t", "@">>)
    /\ Failed("Repo address does not seem to be valid")

---------------------------------------------------------------------------
(* Claims about the scraper, checked under SpecScrape.                     *)

\* The text after a marker up to the next '<' or '"', whichever comes first;
\* found = FALSE when neither follows.
TextAfterMarker(pg, marker, skip) ==
    LET index == Find(pg, marker)
        rest == DropFirst(pg, index + skip)
        stops == {i \in 1..Len(rest) : rest[i] \in {"<", "\""}}
    IN  IF index = -1 \/ stops = {} THEN [found |-> FALSE, text |-> EMPTY]
        ELSE [found |-> TRUE, text |-> SubSeq(rest, 1, Min(stops) - 1)]

\* The chain of heuristics as the specification words it: each heuristic
\* yields an address or nothing, and the first address wins.
FirstSuccessWins(pg) ==
    LET a == SearchFetchUrl(pg)
        b == TextAfterMarker(pg, HG_CLONE, 9)
        c == TextAfterMarker(pg, GIT_CLONE, 10)
    IN  IF a.found
        THEN FoundRepo(IF EndsWith(a.group, DOT_GIT) THEN "git" ELSE "hg", a.group)
        ELSE IF b.found THEN FoundRepo("hg", b.text)
        ELSE IF c.found THEN FoundRepo("git", c.text)
        ELSE NoRepo("No information found.", pg)

Scraped == pc = "done" /\ StartsWith(url, <<"h", "t", "t", "p">>) /\ code = HTTP_OK

\* C8: on a page fetched with status 200 the scraper returns the result of
\* the first heuristic, in the order fetch-URL attribute, 'hg clone', 'git
\* clone', that yields an address; a marker's address is the text after it up
\* to the next '<' or '"'; it fails only when no heuristic yields an address.
C8_FirstHeuristicThatSucceeds ==
    Scraped =>
        /\ repoinfo.repotype = FirstSuccessWins(page).repotype
        /\ repoinfo.repo = FirstSuccessWins(page).repo

---------------------------------------------------------------------------
(* Claims about the scanner, checked under SpecScan.                       *)

\* the files the specification has the scanner include
WantedFiles(tr) ==
    {p \in DOMAIN tr :
        \/ BaseName(p) = <<"A", "n", "d", "r", "o", "i", "d", "M", "a", "n", "i", "f", "e", "s", "t", ".", "x", "m", "l">>
        \/ EndsWith(BaseName(p), <<".", "g", "r", "a", "d", "l", "e">>)
        \/ EndsWith(BaseName(p), <<".", "g", "r", "a", "d", "l", "e", ".", "k", "t", "s">>)}

\* C7: the scan returns exactly the manifest and Gradle files of the tree, each
\* once, in a sequence that depends on the tree alone and not on the order in
\* which the filesystem enumerates the entries of a directory.
C7_ScanIsAFunctionOfTheTree ==
    pc = "scanned" =>
        /\ {paths[i] : i \in 1..Len(paths)} = {BuildDir \o p : p \in WantedFiles(tree)}
        /\ Len(paths) = Cardinality(WantedFiles(tree))
        /\ \A listing \in Listings(tree) :
              GetAllGradleAndManifests(tree, BuildDir, listing) = paths

---------------------------------------------------------------------------
(* Claims about the resolver, checked under SpecResolve.                   *)

\* the directory of path p relative to the build directory, as the string the
\* specification gives it: '.' for the build directory itself
RelativeDir(dir) ==
    LET rel == DropFirst(NormPath(dir), Len(BuildDir))
    IN  IF rel = <<>> THEN DOT ELSE JoinPath(rel)

\* the positions in paths of the files the resolver reads as settings files
SettingsRead == {i \in 1..Len(paths) : MatchSettingsGradle(BaseName(paths[i]))}

\* the positions in paths of the files named settings.gradle or
\* settings.gradle.kts
SettingsNamed ==
    {i \in 1..Len(paths) :
        BaseName(paths[i]) \in { <<"s", "e", "t", "t", "i", "n", "g", "s", ".", "g", "r", "a", "d", "l", "e">>, <<"s", "e", "t", "t", "i", "n", "g", "s", ".", "g", "r", "a", "d", "l", "e", ".", "k", "t", "s">> }}

\* the subprojects settings file paths[i] declares
Declared(i) == FindSubprojects(ReadFile(tree, paths[i]))

\* the directory of the k-th subproject declared by paths[i]
DeclaredDir(i, k) == DirName(paths[i]) \o SplitPath(Declared(i)[k])

\* the declared subprojects of paths[i] that have a build.gradle* file with an
\* Android-application plugin line
AppModules(i) ==
    {k \in 1..Len(Declared(i)) :
        \E f \in GlobBuildGradle(tree, DeclaredDir(i, k)) : HasPluginLine(tree, f)}

\* the one settings file of the tree declares several subprojects, exactly
\* one of which is an application module
OneAppModule(i) ==
    /\ pc = "done"
    /\ SettingsRead = {i}
    /\ BaseName(paths[i]) = <<"s", "e", "t", "t", "i", "n", "g", "s", ".", "g", "r", "a", "d", "l", "e">>
    /\ Len(Declared(i)) >= 2
    /\ Cardinality(AppModules(i)) = 1

\* C5: when the settings.gradle of the scanned tree declares several
\* subprojects of which exactly one has a build.gradle* file with an
\* Android-application plugin line, the resolver returns the directory of that
\* subproject relative to the build directory, whatever the order of the
\* declarations and whichever path comes first in the sequence.
C5_AppModuleWins ==
    \A i \in 1..Len(paths) :
        OneAppModule(i) =>
            \A k \in AppModules(i) : subdir = RelativeDir(DeclaredDir(i, k))

\* the application module is declared last and the first path of the
\* sequence lies in another directory than it
C5_Witness ==
    \E i \in 1..Len(paths) :
        /\ OneAppModule(i)
        /\ AppModules(i) = {Len(Declared(i))}
        /\ RelativeDir(DirName(paths[1])) # subdir
        /\ RelativeDir(DirName(paths[1])) # DOT
        /\ subdir = <<"s", "r", "c", "/", "m", "a", "i", "n">>

\* C6: when no file named settings.gradle or settings.gradle.kts yields a
\* declared subproject with a plugin line, the resolver returns the directory
\* of the first path relative to the build directory if there is one and it is
\* not '.', and the empty string otherwise; files whose names only begin with
\* settings.gradle are not read.
C6_FallbackWithoutSettingsMatch ==
    (pc = "done" /\ \A i \in SettingsNamed : AppModules(i) = {}) =>
        subdir = IF paths # <<>> /\ RelativeDir(DirName(paths[1])) # DOT
                 THEN RelativeDir(DirName(paths[1]))
                 ELSE EMPTY

\* C10: the resolver returns the empty string or the relative path of a
\* directory inside the build directory, never '.' and never a path that
\* leaves the build directory.
C10_SubdirInsideRoot ==
    pc = "done" =>
        /\ subdir # DOT
        /\ ~StartsWith(subdir, DOTDOT)
        /\ subdir # EMPTY => \E p \in DOMAIN tree : StartsWith(p, SplitPath(subdir))

---------------------------------------------------------------------------
(* Claims about the import run, checked under Spec.                        *)

StageOrder == <<"classify", "checkout", "scan", "resolve", "extract", "write">>

IsPrefix(s, t) == Len(s) <= Len(t) /\ SubSeq(t, 1, Len(s)) = s

\* the run was started with --url
UrlRun == env.urlGiven

\* the errors of the classifier
ClassifyErrors ==
    {"Unable to determine the project type", "Unable to determine vcs type",
     "Repo address does not seem to be valid"}

\* the errors raised once the scan and the resolver have returned
ExtractErrors ==
    {"No gradle project could be found", "Couldn't find package ID",
     "Package already exists"}

\* what holds in every state of a run started from a URL
RunInvariant ==
    UrlRun =>
        /\ IsPrefix(stages, StageOrder)
        /\ Len(vcs) <= 1
        /\ \A i \in 1..Len(vcs) : PassesValidation(vcs[i].Repo)
        /\ error # "none" => pc = "failed" /\ written = <<>>
        /\ error \in ClassifyErrors => stages = <<"classify">> /\ vcs = <<>>
        /\ error = "VCSException" => stages = <<"classify", "checkout">>
        /\ error \in ExtractErrors => stages = SubSeq(StageOrder, 1, 5)
        /\ error = "No gradle project could be found" => paths = <<>>
        /\ written # <<>> => stages = StageOrder /\ Len(written) = 1

\* C9: in a run started from a URL the stages execute in the order classify,
\* checkout, scan, resolve, extract, write, each at most once; an error ends
\* the run where it is raised, with no further step; the VCS client is never
\* handed an address the validation refuses, and no metadata is written in a
\* run that raised an error.
C9_ErrorsAbortTheRun ==
    /\ []RunInvariant
    /\ [][UrlRun => error = "none"]_vars

\* a run that failed after the checkout: the package found is already known
C9_Witness ==
    /\ UrlRun
    /\ pc = "failed"
    /\ error = "Package already exists"
    /\ Len(vcs) = 1
    /\ stages = SubSeq(StageOrder, 1, 5)

===========================================================================
